---- MODULE Spec2Model ----
(***************************************************************************)
(* A model of decorate_with_symlinks.py: the replication of a source tree  *)
(* as symbolic links under a destination root, with an optional literal    *)
(* rewrite of the destination path, the modes create and delete and the    *)
(* --on-exists policies ask, fail, skip and execute.                       *)
(*                                                                         *)
(* A path string is a sequence of one-character strings, so that           *)
(* str.replace, os.path.join, dirname, normpath and relpath are computed   *)
(* character by character as Python computes them.  The filesystem is a    *)
(* function from the physical location of an entry (a sequence of          *)
(* components from "/") to the entry: a regular file, a directory or a     *)
(* symbolic link with its stored target string.                            *)
(***************************************************************************)
EXTENDS Integers, Sequences, FiniteSets, TLC

VARIABLES
    fs,               \* the filesystem: physical location -> entry
    cwd,              \* os.getcwd(), a path string
    argv,             \* the arguments of main: source root, destination root, rewrite, flags
    source_root,      \* decorate_symlinks' local, after lines 249-255
    dest_root,        \* decorate_symlinks' local, after lines 249-255
    pc,               \* the position of the process
    stack,            \* os.walk: the directories still to visit, in order
    root,             \* os.walk: the directory being yielded
    files,            \* os.walk: the files of root still to process, in order
    file_path,        \* line 268
    relative_path,    \* line 274
    target_file,      \* line 275
    user_choice,      \* line 186: the last answer read, lower-cased
    action_result,    \* line 283
    conflict,         \* whether line 282 held for the current file
    outcome,          \* what decorate_symlinks reported last: "complete" or "failed"
    exit_status,      \* the status of the process, -1 while it runs
    scan_order,       \* the order in which this filesystem lists a directory
    run,              \* which invocation of the script this is (1, 2, ...)
    prompted,         \* whether line 186 has asked about the current file
    fs0,              \* the filesystem before the first invocation
    fs1,              \* the filesystem after the first invocation ended
    atConflict,       \* the filesystem when the current conflict was detected
    log               \* the os.makedirs / os.remove / os.symlink calls that succeeded

vars == <<fs, cwd, argv, source_root, dest_root, pc, stack, root, files,
          file_path, relative_path, target_file, user_choice, action_result, conflict, outcome,
          exit_status, scan_order, run, prompted, fs0, fs1, atConflict, log>>

----------------------------------------------------------------------------
(* Strings *)

SEP == "/"

\* s[i..j], empty when j < i
Slice(s, i, j) == IF j < i THEN <<>> ELSE SubSeq(s, i, j)

\* whether sub occurs in s at position i
MatchAt(s, sub, i) ==
    /\ i + Len(sub) - 1 <= Len(s)
    /\ \A k \in 1..Len(sub) : s[i + k - 1] = sub[k]

startswith(s, prefix) == MatchAt(s, prefix, 1)

endswith(s, suffix) ==
    Len(suffix) <= Len(s) /\ MatchAt(s, suffix, Len(s) - Len(suffix) + 1)

RECURSIVE ReplaceFrom(_, _, _, _)
\* str.replace with a non-empty old: left to right, non-overlapping
ReplaceFrom(s, old, new, i) ==
    IF i > Len(s) THEN <<>>
    ELSE IF MatchAt(s, old, i)
         THEN new \o ReplaceFrom(s, old, new, i + Len(old))
         ELSE <<s[i]>> \o ReplaceFrom(s, old, new, i + 1)

RECURSIVE Interleave(_, _, _)
\* str.replace with an empty old: new before every character and at the end
Interleave(s, new, i) ==
    IF i > Len(s) THEN new
    ELSE new \o <<s[i]>> \o Interleave(s, new, i + 1)

\* Python's str.replace(old, new)
str_replace(s, old, new) ==
    IF old = <<>> THEN Interleave(s, new, 1) ELSE ReplaceFrom(s, old, new, 1)

RECURSIVE SplitFrom(_, _, _)
SplitFrom(s, i, cur) ==
    IF i > Len(s) THEN <<cur>>
    ELSE IF s[i] = SEP THEN <<cur>> \o SplitFrom(s, i + 1, <<>>)
         ELSE SplitFrom(s, i + 1, Append(cur, s[i]))

\* s.split('/')
split_sep(s) == SplitFrom(s, 1, <<>>)

RECURSIVE join_sep(_)
\* '/'.join(comps)
join_sep(comps) ==
    IF comps = <<>> THEN <<>>
    ELSE IF Len(comps) = 1 THEN comps[1]
         ELSE comps[1] \o <<SEP>> \o join_sep(Tail(comps))

\* s.rfind('/') + 1
RfindSepPlus1(s) ==
    LET hits == {i \in 1..Len(s) : s[i] = SEP}
    IN  IF hits = {} THEN 0 ELSE CHOOSE i \in hits : \A j \in hits : j <= i

RECURSIVE rstrip_sep(_)
rstrip_sep(s) ==
    IF s # <<>> /\ s[Len(s)] = SEP THEN rstrip_sep(Slice(s, 1, Len(s) - 1)) ELSE s

AllSep(s) == \A i \in 1..Len(s) : s[i] = SEP

----------------------------------------------------------------------------
(* posixpath *)

isabs(p) == startswith(p, <<SEP>>)

\* os.path.join(a, b)
path_join(a, b) ==
    IF isabs(b) THEN b
    ELSE IF a = <<>> \/ endswith(a, <<SEP>>) THEN a \o b
    ELSE a \o <<SEP>> \o b

\* os.path.split(p)
path_split(p) ==
    LET i    == RfindSepPlus1(p)
        head == Slice(p, 1, i)
        tail == Slice(p, i + 1, Len(p))
    IN  [head |-> IF head # <<>> /\ ~AllSep(head) THEN rstrip_sep(head) ELSE head,
         tail |-> tail]

\* os.path.dirname(p)
dirname(p) == path_split(p).head

RECURSIVE NormComps(_, _, _)
\* the loop of posixpath.normpath over the components
NormComps(comps, new_comps, initial_slashes) ==
    IF comps = <<>> THEN new_comps
    ELSE LET comp == Head(comps)
         IN  IF comp = <<>> \/ comp = <<".">>
             THEN NormComps(Tail(comps), new_comps, initial_slashes)
             ELSE IF \/ comp # <<".", ".">>
                     \/ (initial_slashes = 0 /\ new_comps = <<>>)
                     \/ (new_comps # <<>> /\ new_comps[Len(new_comps)] = <<".", ".">>)
             THEN NormComps(Tail(comps), Append(new_comps, comp), initial_slashes)
             ELSE IF new_comps # <<>>
             THEN NormComps(Tail(comps), Slice(new_comps, 1, Len(new_comps) - 1),
                            initial_slashes)
             ELSE NormComps(Tail(comps), new_comps, initial_slashes)

\* os.path.normpath(p)
normpath(p) ==
    IF p = <<>> THEN <<".">>
    ELSE LET initial_slashes ==
                 IF ~isabs(p) THEN 0
                 ELSE IF startswith(p, <<SEP, SEP>>) /\ ~startswith(p, <<SEP, SEP, SEP>>)
                      THEN 2 ELSE 1
             comps == NormComps(split_sep(p), <<>>, initial_slashes)
             body  == join_sep(comps)
             out   == [i \in 1..initial_slashes |-> SEP] \o body
         IN  IF out = <<>> THEN <<".">> ELSE out

\* os.path.abspath(p)
abspath(p) == normpath(IF isabs(p) THEN p ELSE path_join(cwd, p))

\* [x for x in abspath(p).split('/') if x]
AbsList(p) == SelectSeq(split_sep(abspath(p)), LAMBDA x : x # <<>>)

\* len(os.path.commonprefix([a, b])) for two lists
CommonLen(a, b) ==
    LET m    == IF Len(a) < Len(b) THEN Len(a) ELSE Len(b)
        same == {i \in 0..m : \A k \in 1..i : a[k] = b[k]}
    IN  CHOOSE i \in same : \A j \in same : j <= i

\* os.path.relpath(path, start), for a non-empty path
relpath(path, start) ==
    LET start_list == AbsList(start)
        path_list  == AbsList(path)
        i          == CommonLen(start_list, path_list)
        rel_list   == [k \in 1..(Len(start_list) - i) |-> <<".", ".">>]
                          \o Slice(path_list, i + 1, Len(path_list))
    IN  IF rel_list = <<>> THEN <<".">> ELSE join_sep(rel_list)

----------------------------------------------------------------------------
(* The filesystem, as the os module sees it *)

\* how many symbolic links one lookup follows before it fails with ELOOP
MaxSymlinks == 3

File == [kind |-> "file", target |-> <<>>]
Dir == [kind |-> "dir", target |-> <<>>]
Link(t) == [kind |-> "link", target |-> t]

\* the components of a path string, as the kernel walks them
Comps(p) == SelectSeq(split_sep(p), LAMBDA x : x # <<>>)

\* "dir" for "/", the kind of the entry at a location, "none" when nothing is there
Kind(f, node) ==
    IF node = <<>> THEN "dir"
    ELSE IF node \in DOMAIN f THEN f[node].kind ELSE "none"

Parent(node) == Slice(node, 1, Len(node) - 1)

RECURSIVE Namei(_, _, _, _, _)
\* Path resolution from the directory cur: the location the path names (which
\* may hold nothing), or the error.  Every component but the last must be a
\* directory or a link to one; the last is followed only when followLast.
Namei(f, cur, comps, followLast, fuel) ==
    IF comps = <<>> THEN [err |-> "", node |-> cur]
    ELSE LET c    == Head(comps)
             rest == Tail(comps)
             nxt  == Append(cur, c)
             k    == Kind(f, nxt)
         IN  IF c = <<".">> THEN Namei(f, cur, rest, followLast, fuel)
             ELSE IF c = <<".", ".">> THEN Namei(f, Parent(cur), rest, followLast, fuel)
             ELSE IF k = "link" /\ (rest # <<>> \/ followLast)
             THEN IF fuel = 0 THEN [err |-> "ELOOP", node |-> nxt]
                  ELSE IF f[nxt].target = <<>> THEN [err |-> "ENOENT", node |-> nxt]
                  ELSE Namei(f, IF isabs(f[nxt].target) THEN <<>> ELSE cur,
                             Comps(f[nxt].target) \o rest, followLast, fuel - 1)
             ELSE IF rest = <<>> THEN [err |-> "", node |-> nxt]
             ELSE IF k = "none" THEN [err |-> "ENOENT", node |-> nxt]
             ELSE IF k = "file" THEN [err |-> "ENOTDIR", node |-> nxt]
             ELSE Namei(f, nxt, rest, followLast, fuel)

\* stat (follow) or lstat (~follow) of a path string
Lookup(f, p, follow) ==
    IF p = <<>> THEN [err |-> "ENOENT", node |-> <<>>]
    ELSE Namei(f, IF isabs(p) THEN <<>> ELSE Comps(cwd), Comps(p), follow, MaxSymlinks)

StatKind(f, p, follow) ==
    LET r == Lookup(f, p, follow)
    IN  IF r.err = "" THEN Kind(f, r.node) ELSE "none"

\* os.path.exists, os.path.islink, os.path.isdir
path_exists(f, p) == StatKind(f, p, TRUE) # "none"
path_islink(f, p) == StatKind(f, p, FALSE) = "link"
path_isdir(f, p) == StatKind(f, p, TRUE) = "dir"

\* os.remove: unlinks a file or a link, fails on a directory or on nothing
os_remove(f, p) ==
    LET r == Lookup(f, p, FALSE)
    IN  IF r.err = "" /\ Kind(f, r.node) \in {"file", "link"}
        THEN [ok |-> TRUE, fs |-> [n \in DOMAIN f \ {r.node} |-> f[n]]]
        ELSE [ok |-> FALSE, fs |-> f]

\* os.symlink(src, dst): fails when dst is taken or its directory is missing
os_symlink(f, src, dst) ==
    LET r == Lookup(f, dst, FALSE)
    IN  IF r.err = "" /\ Kind(f, r.node) = "none" /\ src # <<>>
        THEN [ok |-> TRUE, fs |-> (r.node :> Link(src)) @@ f]
        ELSE [ok |-> FALSE, fs |-> f]

\* os.mkdir(p)
os_mkdir(f, p) ==
    LET r == Lookup(f, p, FALSE)
    IN  IF r.err = "" /\ Kind(f, r.node) = "none"
        THEN [err |-> "", fs |-> (r.node :> Dir) @@ f]
        ELSE [err |-> IF r.err = "" THEN "FileExistsError" ELSE "OSError", fs |-> f]

RECURSIVE os_makedirs(_, _)
\* os.makedirs(name): the directories made are kept when a later mkdir fails
os_makedirs(f, name) ==
    LET s1   == path_split(name)
        s2   == IF s1.tail = <<>> THEN path_split(s1.head) ELSE s1
        head == s2.head
        tail == s2.tail
        up   == IF head # <<>> /\ tail # <<>> /\ ~path_exists(f, head)
                THEN os_makedirs(f, head)
                ELSE [err |-> "", fs |-> f, made |-> <<>>]
    IN  IF up.err \notin {"", "FileExistsError"} THEN up
        ELSE IF tail = <<".">> THEN [up EXCEPT !.err = ""]
        ELSE LET m == os_mkdir(up.fs, name)
             IN  [err |-> m.err, fs |-> m.fs,
                  made |-> IF m.err = "" THEN Append(up.made, name) ELSE up.made]

----------------------------------------------------------------------------
(* os.walk *)

\* the characters of the model's names, in the order a listing compares them
Alphabet == <<".", SEP, "a", "b", "c", "d", "e", "o", "s", "w", "x">>

CharRank(c) == CHOOSE i \in 1..Len(Alphabet) : Alphabet[i] = c

RECURSIVE NameLess(_, _)
NameLess(a, b) ==
    IF a = <<>> THEN b # <<>>
    ELSE IF b = <<>> THEN FALSE
    ELSE IF a[1] = b[1] THEN NameLess(Tail(a), Tail(b))
    ELSE CharRank(a[1]) < CharRank(b[1])

RECURSIVE Listing(_, _)
\* a set of names in the order the directory lists them: an order the
\* filesystem fixes, ascending or descending here
Listing(names, order) ==
    IF names = {} THEN <<>>
    ELSE LET first == CHOOSE n \in names : \A m \in names \ {n} :
                          IF order = "asc" THEN NameLess(n, m) ELSE NameLess(m, n)
         IN  <<first>> \o Listing(names \ {first}, order)

\* the names os.scandir(top) yields, for a directory top
Scandir(f, top) ==
    LET r == Lookup(f, top, TRUE)
    IN  IF r.err = "" /\ Kind(f, r.node) = "dir"
        THEN [ok |-> TRUE,
              names |-> {n[Len(n)] : n \in {m \in DOMAIN f :
                             Len(m) = Len(r.node) + 1 /\ Parent(m) = r.node}}]
        ELSE [ok |-> FALSE, names |-> {}]

\* One activation of os.walk's generator on top (top-down, followlinks=False):
\* the files it yields and the directories it will visit before rest.
WalkInto(f, top, rest, order) ==
    LET sd      == Scandir(f, top)
        dirs    == {n \in sd.names : path_isdir(f, path_join(top, n))}
        nondirs == sd.names \ dirs
        sub     == Listing(dirs, order)
    IN  [root  |-> top,
         files |-> Listing(nondirs, order),
         stack |-> [i \in 1..Len(sub) |-> path_join(top, sub[i])] \o rest]

----------------------------------------------------------------------------
(* The script's functions *)

VALID_MODE_VALUES == {"create", "delete"}
DEFAULT_MODE_VALUE == "create"
VALID_ACTION_VALUES == {"ask", "fail", "skip", "execute"}
DEFAULT_ACTION_VALUES == "ask"

convert_path_to_relative(src, base) == relpath(src, base)

convert_path_to_absolute(path) == abspath(path)

\* replace_in_path(path, search, replace, is_destination)
replace_in_path(path, search, replace, is_destination) ==
    IF is_destination THEN str_replace(path, search, replace) ELSE path

\* remove_existing_file(file_path): the filesystem after it and what it removed
remove_existing_file(f, p) ==
    IF path_exists(f, p)
    THEN LET r == os_remove(f, p)
         IN  [fs |-> r.fs, removed |-> IF r.ok THEN {p} ELSE {}]
    ELSE [fs |-> f, removed |-> {}]

\* create_directory(dir_path): the filesystem after it and the directories made
create_directory(f, dir_path) ==
    IF ~path_exists(f, dir_path)
    THEN LET r == os_makedirs(f, dir_path)
         IN  [fs |-> r.fs, made |-> {r.made[i] : i \in 1..Len(r.made)}]
    ELSE [fs |-> f, made |-> {}]

\* the src that create_symlink stores in the link
link_value(src, dest, relative) ==
    IF relative THEN relpath(src, dirname(dest)) ELSE src

\* create_symlink with line 82 testing os.path.exists alone, as line 104 does
create_symlink_ExistsOnly(f, src, dest, relative) ==
    LET taken == path_exists(f, dest)
        rm    == IF taken THEN os_remove(f, dest) ELSE [ok |-> TRUE, fs |-> f]
        ln    == os_symlink(rm.fs, link_value(src, dest, relative), dest)
    IN  IF ~rm.ok THEN [ok |-> FALSE, fs |-> f, removed |-> {}, linked |-> {}]
        ELSE [ok |-> ln.ok, fs |-> ln.fs,
              removed |-> IF taken THEN {dest} ELSE {},
              linked |-> IF ln.ok THEN {dest} ELSE {}]

\* create_symlink(src, dest, relative): an exception of os.remove or of
\* os.symlink ends it with False and keeps what was done before
create_symlink(f, src, dest, relative) ==
    LET taken == path_exists(f, dest) \/ path_islink(f, dest)
        rm    == IF taken THEN os_remove(f, dest) ELSE [ok |-> TRUE, fs |-> f]
        ln    == os_symlink(rm.fs, link_value(src, dest, relative), dest)
    IN  IF ~rm.ok THEN [ok |-> FALSE, fs |-> f, removed |-> {}, linked |-> {}]
        ELSE [ok |-> ln.ok, fs |-> ln.fs,
              removed |-> IF taken THEN {dest} ELSE {},
              linked |-> IF ln.ok THEN {dest} ELSE {}]

\* lines 177 and 183: the answers that let the action go ahead
execute_choices(mode) ==
    IF mode = "create" THEN {"r", "replace"} ELSE {"d", "delete"}

\* str.lower() on the answers of the model
lower(answer) ==
    CASE answer = "R" -> "r"
      [] answer = "Failed" -> "failed"
      [] OTHER -> answer

\* the prompt loop with an unrecognised answer taken as the go-ahead
answer_effect_Default(mode, choice) ==
    IF choice \in {"s", "skip"} THEN "skipped"
    ELSE IF choice \in {"f", "Failed"} THEN "failed"
    ELSE "execute"

\* what handle_existing_file_behavior does with one answer under 'ask'
\* (lines 188-199): "execute", "skipped", "failed" or "again"
answer_effect(mode, choice) ==
    IF choice \in execute_choices(mode) THEN "execute"
    ELSE IF choice \in {"s", "skip"} THEN "skipped"
    ELSE IF choice \in {"f", "Failed"} THEN "failed"
    ELSE "again"

\* line 275 joining onto the source root
target_of_SourceRoot(dest, rel) == path_join(source_root, rel)

\* line 275
target_of(dest, rel) == path_join(dest, rel)

\* the calls that changed the filesystem: which call, on which path, for a
\* file with which relative path (line 274)
LogOf(op, paths, rel) == {[op |-> op, path |-> q, rel |-> rel] : q \in paths}

----------------------------------------------------------------------------
(* The worlds the script is started in *)

\* how often the script is run on the same trees
MaxRuns == 2

pS == <<SEP, "s">>
pD == <<SEP, "d">>
pSC == <<SEP, "s", SEP, "c">>
pW == <<SEP, "w">>
nS == <<"s">>
nD == <<"d">>
nW == <<"w">>
nA == <<"a">>
nB == <<"b">>
nC == <<"c">>
nE == <<"e">>

\* the directories every world has: the source root, the destination root
\* and the working directory
BaseDirs == (<<nS>> :> Dir) @@ (<<nD>> :> Dir) @@ (<<nW>> :> Dir)

\* the source trees: two files side by side; a file and a file of the same
\* name one level down; a nested file beside an empty directory
SourceTrees ==
    { (<<nS, nA>> :> File) @@ (<<nS, nB>> :> File),
      (<<nS, nA>> :> File) @@ (<<nS, nC>> :> Dir) @@ (<<nS, nC, nA>> :> File),
      (<<nS, nC>> :> Dir) @@ (<<nS, nC, nB>> :> File) @@ (<<nS, nE>> :> Dir) }

\* what the destination may hold at /d/a before the run: nothing, a regular
\* file, a link to the source file, a broken link, a directory
OccupantsA ==
    { <<>>,
      (<<nD, nA>> :> File),
      (<<nD, nA>> :> Link(<<SEP, "s", SEP, "a">>)),
      (<<nD, nA>> :> Link(<<SEP, "o", SEP, "x">>)),
      (<<nD, nA>> :> Dir) }

\* and at /d/c: nothing, a regular file, a link to a directory elsewhere
OccupantsC ==
    { <<>>,
      (<<nD, nC>> :> File),
      (<<nD, nC>> :> Link(pW)) }

\* the rewrite rules <<search, replace>>
RewriteRules ==
    { <<<<>>, <<>>>>,
      <<<<"a">>, <<"b">>>>,
      <<<<>>, <<"x">>>>,
      <<<<"s">>, <<"o">>>>,
      <<<<"c", SEP>>, <<>>>>,
      <<<<SEP, "s", SEP, "a">>, <<>>>> }

Args(src, dst, rule, rel, mode, action) ==
    [argc_ok |-> TRUE, source_root |-> src, dest_root |-> dst,
     search_string |-> rule[1], replace_string |-> rule[2],
     relative_symlink |-> rel, mode |-> mode, action |-> action]

\* one directory lists at most one name of each kind: its order is immaterial
OneOrder(tree) == \A n \in DOMAIN tree : \A m \in DOMAIN tree :
    (n # m /\ Parent(n) = Parent(m)) => tree[n].kind # tree[m].kind

Locals ==
    /\ source_root = <<>>
    /\ dest_root = <<>>
    /\ pc = "main"
    /\ stack = <<>>
    /\ root = <<>>
    /\ files = <<>>
    /\ file_path = <<>>
    /\ relative_path = <<>>
    /\ target_file = <<>>
    /\ user_choice = ""
    /\ action_result = "unset"
    /\ conflict = FALSE
    /\ outcome = "none"
    /\ exit_status = -1
    /\ prompted = FALSE

\* source and destination apart: /s and /d
InitApart ==
    \E tree \in SourceTrees, oa \in OccupantsA, oc \in OccupantsC,
       rule \in RewriteRules, rel \in BOOLEAN, mode \in VALID_MODE_VALUES,
       action \in VALID_ACTION_VALUES, order \in {"asc", "desc"} :
        /\ order = "desc" => ~OneOrder(tree)
        /\ oa # <<>> => <<nS, nA>> \in DOMAIN tree
        /\ oc # <<>> => <<nS, nC>> \in DOMAIN tree
        /\ fs = oa @@ oc @@ tree @@ BaseDirs
        /\ argv = Args(pS, pD, rule, rel, mode, action)
        /\ scan_order = order

\* the destination root is the source root or a directory of the source tree
InitOverlap ==
    \E tree \in SourceTrees, dst \in {pS, pSC},
       rule \in {r \in RewriteRules : r[1] = <<>> /\ r[2] = <<>>},
       rel \in BOOLEAN, mode \in VALID_MODE_VALUES,
       action \in VALID_ACTION_VALUES :
        /\ fs = tree @@ BaseDirs
        /\ path_isdir(fs, dst)
        /\ argv = Args(pS, dst, rule, rel, mode, action)
        /\ scan_order = "asc"

\* the command lines main refuses
InitRefused ==
    \E bad \in {"argc", "mode", "action", "source", "dest"} :
        /\ fs = (<<nS, nA>> :> File) @@ BaseDirs
        /\ argv = [Args(IF bad = "source" THEN <<SEP, "x">> ELSE pS,
                        IF bad = "dest" THEN <<SEP, "s", SEP, "a">> ELSE pD,
                        <<<<>>, <<>>>>, FALSE,
                        IF bad = "mode" THEN "remove" ELSE DEFAULT_MODE_VALUE,
                        IF bad = "action" THEN "replace" ELSE DEFAULT_ACTION_VALUES)
                   EXCEPT !.argc_ok = (bad # "argc")]
        /\ scan_order = "asc"

Init ==
    /\ cwd = pW
    /\ Locals
    /\ run = 1
    /\ log = {}
    /\ InitApart \/ InitOverlap \/ InitRefused
    /\ fs0 = fs
    /\ fs1 = fs
    /\ atConflict = fs

----------------------------------------------------------------------------
(* main and decorate_symlinks *)

Exit(status) ==
    /\ pc' = "exit"
    /\ exit_status' = status
    /\ fs1' = IF run = 1 THEN fs ELSE fs1
    /\ UNCHANGED <<fs, cwd, argv, source_root, dest_root, stack, root, files,
                   file_path, relative_path, target_file, user_choice, action_result, conflict,
                   outcome, scan_order, run, prompted, fs0, atConflict, log>>

\* lines 324-326: too few arguments
Usage ==
    /\ pc = "main"
    /\ ~argv.argc_ok
    /\ Exit(1)

\* lines 339, 344, 237-238: validate_mode_value, validate_action_value
InvalidFlag ==
    /\ pc = "main"
    /\ argv.argc_ok
    /\ argv.mode \notin VALID_MODE_VALUES \/ argv.action \notin VALID_ACTION_VALUES
    /\ Exit(1)

\* lines 241-246: a root that is no directory
MissingRoot ==
    /\ pc = "main"
    /\ argv.argc_ok
    /\ argv.mode \in VALID_MODE_VALUES
    /\ argv.action \in VALID_ACTION_VALUES
    /\ ~path_isdir(fs, argv.source_root) \/ ~path_isdir(fs, argv.dest_root)
    /\ Exit(1)

\* lines 249-265: the roots are converted and os.walk lists the source root
Begin ==
    /\ pc = "main"
    /\ argv.argc_ok
    /\ argv.mode \in VALID_MODE_VALUES
    /\ argv.action \in VALID_ACTION_VALUES
    /\ path_isdir(fs, argv.source_root)
    /\ path_isdir(fs, argv.dest_root)
    /\ LET abs_src == convert_path_to_absolute(argv.source_root)
           abs_dst == convert_path_to_absolute(argv.dest_root)
           src     == IF argv.relative_symlink
                      THEN convert_path_to_relative(abs_src, cwd) ELSE abs_src
           dst     == IF argv.relative_symlink
                      THEN convert_path_to_relative(abs_dst, cwd) ELSE abs_dst
           w       == WalkInto(fs, src, <<>>, scan_order)
       IN  /\ source_root' = src
           /\ dest_root' = dst
           /\ root' = w.root
           /\ files' = w.files
           /\ stack' = w.stack
    /\ pc' = "loop"
    /\ UNCHANGED <<fs, cwd, argv, file_path, relative_path, target_file, user_choice,
                   action_result, conflict, outcome, exit_status, scan_order,
                   run, prompted, fs0, fs1, atConflict, log>>

\* line 271 for the next file of the listing
Rewritten ==
    replace_in_path(path_join(root, Head(files)), argv.search_string,
                    argv.replace_string, TRUE)

\* lines 266-279: the next file, its target and the target's directory
BeginFile ==
    /\ pc = "loop"
    /\ files # <<>>
    /\ Rewritten # <<>>
    /\ LET rel    == relpath(Rewritten, source_root)
           target == target_of(dest_root, rel)
           cd     == create_directory(fs, dirname(target))
       IN  /\ file_path' = path_join(root, Head(files))
           /\ relative_path' = rel
           /\ target_file' = target
           /\ fs' = cd.fs
           /\ log' = log \cup LogOf("mkdir", cd.made, rel)
    /\ files' = Tail(files)
    /\ conflict' = FALSE
    /\ prompted' = FALSE
    /\ pc' = "check"
    /\ UNCHANGED <<cwd, argv, source_root, dest_root, stack, root, user_choice,
                   action_result, outcome, exit_status, scan_order, run, fs0,
                   fs1, atConflict>>

\* line 274: os.path.relpath raises ValueError on an empty path, nothing
\* catches it and the interpreter ends with status 1
RewriteError ==
    /\ pc = "loop"
    /\ files # <<>>
    /\ Rewritten = <<>>
    /\ Exit(1)

\* os.walk resumed with no file left: the next directory, unless it is a link
NextDir ==
    /\ pc = "loop"
    /\ files = <<>>
    /\ stack # <<>>
    /\ LET w == IF path_islink(fs, Head(stack))
                THEN [root |-> root, files |-> <<>>, stack |-> Tail(stack)]
                ELSE WalkInto(fs, Head(stack), Tail(stack), scan_order)
       IN  /\ root' = w.root
           /\ files' = w.files
           /\ stack' = w.stack
    /\ UNCHANGED <<fs, cwd, argv, source_root, dest_root, pc, file_path,
                   relative_path, target_file, user_choice, action_result, conflict, outcome,
                   exit_status, scan_order, run, prompted, fs0, fs1, atConflict, log>>

\* line 296: the walk is over
Complete ==
    /\ pc = "loop"
    /\ files = <<>>
    /\ stack = <<>>
    /\ outcome' = "complete"
    /\ pc' = "return"
    /\ UNCHANGED <<fs, cwd, argv, source_root, dest_root, stack, root, files,
                   file_path, relative_path, target_file, user_choice, action_result, conflict,
                   exit_status, scan_order, run, prompted, fs0, fs1, atConflict, log>>

\* line 282
Taken == path_exists(fs, target_file) \/ path_islink(fs, target_file)

\* line 282 false: on to line 293
NoConflict ==
    /\ pc = "check"
    /\ ~Taken
    /\ pc' = "link"
    /\ UNCHANGED <<fs, cwd, argv, source_root, dest_root, stack, root, files,
                   file_path, relative_path, target_file, user_choice, action_result, conflict,
                   outcome, exit_status, scan_order, run, prompted, fs0, fs1,
                   atConflict, log>>

\* line 287 as a continue: the conflict is reported and the walk goes on
ConflictFail_Continues ==
    /\ pc = "check"
    /\ Taken
    /\ argv.action = "fail"
    /\ conflict' = TRUE
    /\ atConflict' = fs
    /\ action_result' = "failed"
    /\ pc' = "loop"
    /\ UNCHANGED <<fs, cwd, argv, source_root, dest_root, stack, root, files,
                   file_path, relative_path, target_file, user_choice, outcome,
                   exit_status, scan_order, run, prompted, fs0, fs1, log>>

\* lines 161-163 and 285-287: 'fail' ends the run
ConflictFail ==
    /\ pc = "check"
    /\ Taken
    /\ argv.action = "fail"
    /\ conflict' = TRUE
    /\ atConflict' = fs
    /\ action_result' = "failed"
    /\ outcome' = "failed"
    /\ pc' = "return"
    /\ UNCHANGED <<fs, cwd, argv, source_root, dest_root, stack, root, files,
                   file_path, relative_path, target_file, user_choice, exit_status, scan_order,
                   run, prompted, fs0, fs1, log>>

\* 'skip' removing the entry before it goes on
ConflictSkip_Removes ==
    /\ pc = "check"
    /\ Taken
    /\ argv.action = "skip"
    /\ conflict' = TRUE
    /\ atConflict' = fs
    /\ fs' = remove_existing_file(fs, target_file).fs
    /\ action_result' = "skipped"
    /\ pc' = "loop"
    /\ UNCHANGED <<cwd, argv, source_root, dest_root, stack, root, files,
                   file_path, relative_path, target_file, user_choice, outcome,
                   exit_status, scan_order, run, prompted, fs0, fs1, log>>

\* lines 165-167 and 289-290: 'skip' goes on with the next file
ConflictSkip ==
    /\ pc = "check"
    /\ Taken
    /\ argv.action = "skip"
    /\ conflict' = TRUE
    /\ atConflict' = fs
    /\ action_result' = "skipped"
    /\ pc' = "loop"
    /\ UNCHANGED <<fs, cwd, argv, source_root, dest_root, stack, root, files,
                   file_path, relative_path, target_file, user_choice, outcome, exit_status,
                   scan_order, run, prompted, fs0, fs1, log>>

\* lines 206-211: 'execute' removes the entry
ConflictExecute ==
    /\ pc = "check"
    /\ Taken
    /\ argv.action = "execute"
    /\ conflict' = TRUE
    /\ atConflict' = fs
    /\ LET rm == remove_existing_file(fs, target_file)
       IN  /\ fs' = rm.fs
           /\ log' = log \cup LogOf("remove", rm.removed, relative_path)
    /\ action_result' = "executed"
    /\ pc' = "link"
    /\ UNCHANGED <<cwd, argv, source_root, dest_root, stack, root, files,
                   file_path, relative_path, target_file, user_choice, outcome, exit_status,
                   scan_order, run, prompted, fs0, fs1>>

\* lines 169-174: 'ask' enters the prompt loop
ConflictAsk ==
    /\ pc = "check"
    /\ Taken
    /\ argv.action = "ask"
    /\ conflict' = TRUE
    /\ atConflict' = fs
    /\ pc' = "prompt"
    /\ UNCHANGED <<fs, cwd, argv, source_root, dest_root, stack, root, files,
                   file_path, relative_path, target_file, user_choice, action_result, outcome,
                   exit_status, scan_order, run, prompted, fs0, fs1, log>>

\* what the user may type at the prompt
Answers == {"r", "R", "replace", "d", "delete", "s", "skip",
            "f", "fail", "Failed"}

\* lines 186-199 and 201-211: one answer at the prompt
Prompt ==
    /\ pc = "prompt"
    /\ \E answer \in Answers :
        LET choice == lower(answer)
            effect == answer_effect(argv.mode, choice)
            rm     == remove_existing_file(fs, target_file)
        IN  /\ user_choice' = choice
            /\ prompted' = TRUE
            /\ fs' = IF effect = "execute" THEN rm.fs ELSE fs
            /\ log' = IF effect = "execute"
                      THEN log \cup LogOf("remove", rm.removed, relative_path) ELSE log
            /\ action_result' = CASE effect = "execute" -> "executed"
                                  [] effect = "again" -> action_result
                                  [] OTHER -> effect
            /\ outcome' = IF effect = "failed" THEN "failed" ELSE outcome
            /\ pc' = CASE effect = "execute" -> "link"
                       [] effect = "skipped" -> "loop"
                       [] effect = "failed" -> "return"
                       [] OTHER -> "prompt"
    /\ UNCHANGED <<cwd, argv, source_root, dest_root, stack, root, files,
                   file_path, relative_path, target_file, conflict, exit_status, scan_order,
                   run, fs0, fs1, atConflict>>

\* lines 293-294: the link, in create mode
CreateLink ==
    /\ pc = "link"
    /\ argv.mode = "create"
    /\ LET cs == create_symlink(fs, file_path, target_file, argv.relative_symlink)
       IN  /\ fs' = cs.fs
           /\ log' = log \cup LogOf("remove", cs.removed, relative_path)
                            \cup LogOf("symlink", cs.linked, relative_path)
    /\ pc' = "loop"
    /\ UNCHANGED <<cwd, argv, source_root, dest_root, stack, root, files,
                   file_path, relative_path, target_file, user_choice, action_result, conflict,
                   outcome, exit_status, scan_order, run, prompted, fs0, fs1,
                   atConflict>>

\* line 293 false: delete mode creates nothing
NoLink ==
    /\ pc = "link"
    /\ argv.mode # "create"
    /\ pc' = "loop"
    /\ UNCHANGED <<fs, cwd, argv, source_root, dest_root, stack, root, files,
                   file_path, relative_path, target_file, user_choice, action_result, conflict,
                   outcome, exit_status, scan_order, run, prompted, fs0, fs1,
                   atConflict, log>>

\* lines 287, 296 and 346: decorate_symlinks returns, main falls off its end
Return ==
    /\ pc = "return"
    /\ Exit(0)

\* the same command line is run again on what the last run left
Rerun ==
    /\ pc = "exit"
    /\ run < MaxRuns
    /\ argv.action = "execute"
    /\ run' = run + 1
    /\ source_root' = <<>>
    /\ dest_root' = <<>>
    /\ pc' = "main"
    /\ stack' = <<>>
    /\ root' = <<>>
    /\ files' = <<>>
    /\ file_path' = <<>>
    /\ relative_path' = <<>>
    /\ target_file' = <<>>
    /\ user_choice' = ""
    /\ action_result' = "unset"
    /\ conflict' = FALSE
    /\ outcome' = "none"
    /\ exit_status' = -1
    /\ prompted' = FALSE
    /\ UNCHANGED <<fs, cwd, argv, scan_order, fs0, fs1, atConflict, log>>

Next ==
    \/ Usage \/ InvalidFlag \/ MissingRoot \/ Begin
    \/ BeginFile \/ RewriteError \/ NextDir \/ Complete
    \/ NoConflict \/ ConflictFail \/ ConflictSkip \/ ConflictExecute \/ ConflictAsk
    \/ Prompt \/ CreateLink \/ NoLink \/ Return \/ Rerun

Spec == Init /\ [][Next]_vars

----------------------------------------------------------------------------
(* What the claims speak of *)

\* the locations of the two roots, as given on the command line
SourceNode == AbsList(argv.source_root)
DestNode == AbsList(argv.dest_root)

\* n lies below top
Under(n, top) == Len(n) > Len(top) /\ Slice(n, 1, Len(top)) = top

\* the path string p names the destination root or a place below it
InsideDest(p) ==
    LET l == AbsList(p)
    IN  Len(l) >= Len(DestNode) /\ Slice(l, 1, Len(DestNode)) = DestNode

\* the relative path of line 274 climbs out of the root it is joined onto
Escapes(rel) == Head(split_sep(rel)) = <<".", ".">>

\* line 282 on a filesystem f
TakenIn(f, p) == path_exists(f, p) \/ path_islink(f, p)

\* the entries of f below the destination root
DestTree(f) == [n \in {m \in DOMAIN f : Under(m, DestNode)} |-> f[n]]

\* the regular files below the source root before the first run
SourceFiles == {n \in DOMAIN fs0 : Under(n, SourceNode) /\ fs0[n].kind = "file"}

RECURSIVE JoinAll(_, _)
JoinAll(base, comps) ==
    IF comps = <<>> THEN base ELSE JoinAll(path_join(base, Head(comps)), Tail(comps))

\* the path os.walk gives the source file at location n
WalkPath(n) == JoinAll(source_root, Slice(n, Len(SourceNode) + 1, Len(n)))

\* p is a symbolic link that resolves to the entry at location n
LinkTo(p, n) ==
    /\ path_islink(fs, p)
    /\ Lookup(fs, p, TRUE) = [err |-> "", node |-> n]
    /\ n \in DOMAIN fs

\* the entry at target_file is a symbolic link whose stored target, read from
\* the link's directory, names file_path
HoldsNewLink ==
    LET r == Lookup(fs, target_file, FALSE)
    IN  /\ r.err = ""
        /\ Kind(fs, r.node) = "link"
        /\ abspath(path_join(dirname(target_file), fs[r.node].target)) = abspath(file_path)

\* a file whose target was taken has just been processed under create/execute
ReplaceCase ==
    /\ argv.mode = "create"
    /\ argv.action = "execute"
    /\ pc = "loop"
    /\ conflict

----------------------------------------------------------------------------
(* The claims *)

\* C1: under policy 'fail' the first file whose target is taken ends the run:
\* the step that detects the conflict changes nothing in the filesystem and
\* reports the failure, and from then on, for the rest of that run, no entry
\* is made or removed and no further file is taken from the walk.
C1_FailStopsRun ==
    [][ /\ (argv.action = "fail" /\ pc = "check" /\ Taken)
            => (fs' = fs /\ log' = log /\ outcome' = "failed")
        /\ (outcome = "failed" /\ run' = run)
            => (fs' = fs /\ log' = log /\ files' = files /\ stack' = stack
                /\ file_path' = file_path /\ outcome' = "failed") ]_vars

\* a run under 'fail' that ended at a conflict with files still unprocessed
C1_Witness ==
    /\ argv.action = "fail"
    /\ outcome = "failed"
    /\ pc = "exit"
    /\ files # <<>>
    /\ fs = atConflict

\* C2: under policy 'skip', in both modes, every entry that was there before
\* the run is still there and unchanged, no conflict ends the run, and a
\* conflict is answered by 'skipped' and the walk going on.
C2_SkipKeepsEntries ==
    argv.action = "skip" =>
        /\ \A n \in DOMAIN fs0 : n \in DOMAIN fs /\ fs[n] = fs0[n]
        /\ outcome # "failed"
        /\ conflict => (action_result = "skipped" /\ pc \in {"loop", "return", "exit"})
        /\ (pc = "exit" /\ exit_status = 0) => (outcome = "complete" /\ files = <<>>)

\* a conflict on a broken link was skipped in delete mode and the walk goes on
C2_Witness ==
    /\ argv.action = "skip"
    /\ argv.mode = "delete"
    /\ conflict
    /\ pc = "loop"
    /\ stack # <<>>
    /\ path_islink(fs, target_file)
    /\ ~path_exists(fs, target_file)

\* C3 as stated: in create mode under 'execute', whatever occupied the target
\* path, the target holds the new link to the source file once the file has
\* been processed.
C3_Original == ReplaceCase => HoldsNewLink

\* C3 as amended: the same, for a target occupied by a regular file, a
\* symbolic link or a broken symbolic link, that is by anything but a
\* directory.
C3_ReplaceLeavesLink ==
    (ReplaceCase /\ StatKind(atConflict, target_file, FALSE) \in {"file", "link"})
        => HoldsNewLink

\* a broken link to another place was replaced by the link to the source file
C3_Witness ==
    /\ ReplaceCase
    /\ path_islink(atConflict, target_file)
    /\ ~path_exists(atConflict, target_file)
    /\ HoldsNewLink
    /\ path_exists(fs, target_file)

\* C4 as stated: after a completed create-mode run into an empty destination
\* every source file F has a link at join(dest, relative(rewrite(F), source))
\* that resolves to F, and with an empty search string the link is at
\* join(dest, relative(F, source)).
C4_Original ==
    ( /\ pc = "exit"
      /\ run = 1
      /\ argv.mode = "create"
      /\ outcome = "complete"
      /\ \A m \in DOMAIN fs0 : ~Under(m, DestNode) )
    => \A n \in SourceFiles :
        LET rewritten == replace_in_path(WalkPath(n), argv.search_string,
                                         argv.replace_string, TRUE)
        IN  /\ rewritten # <<>>
            /\ LinkTo(path_join(dest_root, relpath(rewritten, source_root)), n)
            /\ argv.search_string = <<>>
                  => LinkTo(path_join(dest_root, relpath(WalkPath(n), source_root)), n)

\* C5 as stated: a second create/execute run leaves the destination tree as
\* the first run left it.
C5_Original ==
    (pc = "exit" /\ run = 2 /\ argv.mode = "create" /\ argv.action = "execute")
        => DestTree(fs) = DestTree(fs1)

\* C6 as stated: a run ended by a fatal conflict exits with a non-zero status,
\* and status 0 means the walk was completed.
C6_Original ==
    pc = "exit" =>
        /\ outcome = "failed" => exit_status # 0
        /\ exit_status = 0 => outcome = "complete"

\* C7 as stated: in delete mode, once a file whose target was taken has been
\* processed with the deletion going ahead, nothing is left at the target
\* path; and a delete-mode run creates no symbolic link.
C7_Original ==
    argv.mode = "delete" =>
        /\ (pc = "loop" /\ conflict /\ action_result = "executed")
               => ~TakenIn(fs, target_file)
        /\ \A e \in log : e.op # "symlink"

\* C8 as stated: every directory made, entry removed and link created is at a
\* path inside the subtree of the destination root.
C8_Original == \A e \in log : InsideDest(e.path)

\* C8 as amended: so it is for every file whose rewritten path, taken relative
\* to the source root (line 274), does not begin with a ".." component; with
\* an empty rewrite rule that is every file.
C8_WritesInsideDest ==
    /\ \A e \in log : ~Escapes(e.rel) => InsideDest(e.path)
    /\ (argv.search_string = <<>> /\ argv.replace_string = <<>>)
           => \A e \in log : InsideDest(e.path)

\* under a rewrite rule that renames, a directory was made and a link placed
C8_Witness ==
    /\ argv.search_string # <<>>
    /\ \E e \in log : e.op = "mkdir" /\ ~Escapes(e.rel) /\ InsideDest(e.path)
    /\ \E e \in log : e.op = "symlink" /\ ~Escapes(e.rel) /\ InsideDest(e.path)
    /\ \E e \in log : e.op = "remove" /\ ~Escapes(e.rel) /\ InsideDest(e.path)

\* C9 as stated: whatever the roots, the rule, the mode and the policy, the
\* entries below the source root are the same after the run as before it.
C9_Original ==
    \A n \in DOMAIN fs \cup DOMAIN fs0 :
        Under(n, SourceNode) =>
            /\ n \in DOMAIN fs
            /\ n \in DOMAIN fs0
            /\ fs[n] = fs0[n]

\* the answers the prompt of a mode recognises
RecognisedChoices(mode) ==
    (IF mode = "create" THEN {"r", "replace"} ELSE {"d", "delete"})
        \cup {"s", "skip", "f"}

====
